---- MODULE Spec2Model ----
(***************************************************************************)
(* Model of the three scraping pipelines of nfl-franchise-sim:             *)
(*   "madden"    scripts/madden_scraper.py          (source A roster)      *)
(*   "roster"    scripts/spotrac_roster_scraper.py  (source B roster)      *)
(*   "contracts" scripts/spotrac_scraper.py         (source B contracts)   *)
(*                                                                         *)
(* A text is a sequence of one-character strings, so that strip, upper,    *)
(* replace, the regex \d+ and the number parsers are computed character by *)
(* character, as the Python code computes them.  Python's None is the      *)
(* empty set and an Optional[int] n is the set {n}.                        *)
(***************************************************************************)
EXTENDS Integers, Sequences, FiniteSets, TLC

VARIABLES
    money_str,    \* parse_money: the argument
    money_res,    \* parse_money: the outcome of the call
    pipeline,     \* which script runs
    row,          \* row parser: the <tr> being parsed
    row_res,      \* row parser: the outcome for that row
    response,     \* per-team scrape: what the GET produced
    team_res,     \* per-team scrape: the outcome of the call
    b_pc,         \* scrape_all_teams: position in the function
    limit,        \* scrape_all_teams: the limit argument (madden only)
    idx,          \* scrape_all_teams: the enumerate index of the last team done
    all_results,  \* scrape_all_teams: all_contracts / all_players
    events,       \* scrape_all_teams: the GETs and sleeps issued, in order
    m_pc,         \* main: position in the function
    answer,       \* main: what input() returned at the confirmation prompt
    files         \* export_to_json: the files written, in order

vars == <<money_str, money_res, pipeline, row, row_res, response, team_res,
          b_pc, limit, idx, all_results, events, m_pc, answer, files>>

None == {}

Pipelines == {"madden", "roster", "contracts"}

(***************************************************************************)
(* Bounds of the model.                                                    *)
(***************************************************************************)
MaxMoneyLen == 4

MaxCols == 10

MaxTableRows == 2

MaxMixed == 1

(***************************************************************************)
(* Text primitives (Python str methods and re.search(r'\d+', s)).          *)
(***************************************************************************)
IsDigit(c) == c \in {"0", "1", "2", "3", "4", "5", "6", "7", "8", "9"}

DigitVal(c) ==
    CASE c = "0" -> 0 [] c = "1" -> 1 [] c = "2" -> 2 [] c = "3" -> 3
      [] c = "4" -> 4 [] c = "5" -> 5 [] c = "6" -> 6 [] c = "7" -> 7
      [] c = "8" -> 8 [] c = "9" -> 9

IsSpace(c) == c = " "

RECURSIVE LStrip(_)
LStrip(s) == IF s # <<>> /\ IsSpace(Head(s)) THEN LStrip(Tail(s)) ELSE s

RECURSIVE RStrip(_)
RStrip(s) ==
    IF s # <<>> /\ IsSpace(s[Len(s)]) THEN RStrip(SubSeq(s, 1, Len(s) - 1)) ELSE s

\* str.strip()
Strip(s) == RStrip(LStrip(s))

\* str.upper(), on the letters texts of the model are made of
UpperChar(c) ==
    CASE c = "k" -> "K" [] c = "m" -> "M" [] c = "i" -> "I" [] c = "n" -> "N"
      [] c = "f" -> "F" [] c = "a" -> "A" [] c = "y" -> "Y" [] c = "b" -> "B"
      [] OTHER -> c

Upper(s) == [i \in 1..Len(s) |-> UpperChar(s[i])]

\* c in s
Contains(s, c) == \E i \in 1..Len(s) : s[i] = c

\* s.replace(c, '')
Remove(s, c) == SelectSeq(s, LAMBDA x : x # c)

\* the value of a run of decimal digits, int("123")
RECURSIVE DigitsToInt(_)
DigitsToInt(d) ==
    IF d = <<>> THEN 0
    ELSE 10 * DigitsToInt(SubSeq(d, 1, Len(d) - 1)) + DigitVal(d[Len(d)])

\* the longest run of digits that s starts with
RECURSIVE DigitPrefix(_)
DigitPrefix(s) ==
    IF s # <<>> /\ IsDigit(Head(s)) THEN <<Head(s)>> \o DigitPrefix(Tail(s))
    ELSE <<>>

\* re.search(r'\d+', s): the leftmost longest run of digits, <<>> for no match
RECURSIVE FirstDigits(_)
FirstDigits(s) ==
    IF s = <<>> THEN <<>>
    ELSE IF IsDigit(Head(s)) THEN DigitPrefix(s)
    ELSE FirstDigits(Tail(s))

RECURSIVE Pow10(_)
Pow10(n) == IF n = 0 THEN 1 ELSE 10 * Pow10(n - 1)

\* int(x) of the real number n/d: truncation toward zero
TruncDiv(n, d) == IF n >= 0 THEN n \div d ELSE -((-n) \div d)

(***************************************************************************)
(* float(s).  The result is a record: kind "error" (ValueError), "inf",    *)
(* "nan", or "num" with the exact value sign * num / den, den a power of   *)
(* ten.  Exponent notation and digit-group underscores are not modelled:   *)
(* no text of the model contains "e", "E" or "_".                          *)
(***************************************************************************)
FloatError == [kind |-> "error", neg |-> FALSE, num |-> 0, den |-> 1]

AllDigits(s) == \A i \in 1..Len(s) : IsDigit(s[i])

\* digits [ "." digits ]  |  "." digits  |  digits "."
PyFloatDecimal(body, neg) ==
    LET ip == DigitPrefix(body)
        rest == SubSeq(body, Len(ip) + 1, Len(body))
        fp == IF rest # <<>> /\ Head(rest) = "." THEN Tail(rest) ELSE <<>>
    IN  IF rest = <<>>
        THEN IF ip = <<>> THEN FloatError
             ELSE [kind |-> "num", neg |-> neg, num |-> DigitsToInt(ip), den |-> 1]
        ELSE IF Head(rest) # "." \/ ~AllDigits(fp) \/ (ip = <<>> /\ fp = <<>>)
        THEN FloatError
        ELSE [kind |-> "num", neg |-> neg,
              num |-> DigitsToInt(ip) * Pow10(Len(fp)) + DigitsToInt(fp),
              den |-> Pow10(Len(fp))]

PyFloat(s) ==
    LET t == Strip(s)
        signed == t # <<>> /\ Head(t) \in {"-", "+"}
        neg == t # <<>> /\ Head(t) = "-"
        body == IF signed THEN Tail(t) ELSE t
        ub == Upper(body)
    IN  IF ub = <<"I", "N", "F">> \/ ub = <<"I", "N", "F", "I", "N", "I", "T", "Y">>
        THEN [kind |-> "inf", neg |-> neg, num |-> 0, den |-> 1]
        ELSE IF ub = <<"N", "A", "N">>
        THEN [kind |-> "nan", neg |-> neg, num |-> 0, den |-> 1]
        ELSE PyFloatDecimal(body, neg)

(***************************************************************************)
(* SpotracScraper.parse_money.  The outcome is [raised, value]: raised is  *)
(* "none" when the call returns value, and otherwise the exception that    *)
(* leaves the function.                                                    *)
(***************************************************************************)
Returned(v) == [raised |-> "none", value |-> v]

Raised(e) == [raised |-> e, value |-> 0]

\* int(value * scale) inside "try ... except (ValueError, AttributeError)":
\* float() of a malformed text and int() of nan raise ValueError, which is
\* caught; int() of an infinity raises OverflowError, which is not.
IntOfScaled(f, scale) ==
    CASE f.kind = "error" -> Returned(0)
      [] f.kind = "nan" -> Returned(0)
      [] f.kind = "inf" -> Raised("OverflowError")
      [] f.kind = "num" ->
            Returned(TruncDiv((IF f.neg THEN -1 ELSE 1) * f.num * scale, f.den))

parse_money(s) ==
    IF s = <<>> \/ s = <<"-">> \/ s = <<"N", "/", "A">> THEN Returned(0)
    ELSE LET cleaned == Strip(Remove(Remove(s, "$"), ","))
             up == Upper(cleaned)
         IN  IF Contains(up, "M") THEN IntOfScaled(PyFloat(Remove(up, "M")), 1000000)
             ELSE IF Contains(up, "K") THEN IntOfScaled(PyFloat(Remove(up, "K")), 1000)
             ELSE IntOfScaled(PyFloat(cleaned), 1)

(***************************************************************************)
(* parse_age (the same function in both source B scripts).                 *)
(***************************************************************************)
parse_age(s) ==
    IF s = <<>> \/ s = <<"-">> THEN None
    ELSE LET d == FirstDigits(s) IN IF d = <<>> THEN None ELSE {DigitsToInt(d)}

(***************************************************************************)
(* Table rows.  A row is [cols, links]: cols[k] is the text of the k-th    *)
(* <td> (cols[1] is Python's cols[0]) and links the texts of the <a>       *)
(* elements of the cell that holds the player's name, in document order.   *)
(* A header row has <th> cells only, so its cols is empty.                 *)
(***************************************************************************)
\* the <td> that holds the name: cols[0] for contracts, cols[1] / cells[1] else
NameCol(p) == IF p = "contracts" THEN 1 ELSE 2

\* the fewest <td> a row must have: "if len(cols) < 4: continue"
MinCols(p) == IF p = "contracts" THEN 4 ELSE 3

\* the fewest links cell 1 must have (madden): "if len(links) < 3: continue"
MinLinks == 3

\* name_elem.text.strip() if name_elem else cols[i].text.strip()  (source B)
\* links[1].get_text(strip=True)                                  (madden)
ExtractedName(p, r) ==
    IF p = "madden" THEN Strip(r.links[2])
    ELSE IF r.links # <<>> THEN Strip(r.links[1])
    ELSE Strip(r.cols[NameCol(p)])

\* "if not player_name or player_name == '-'"
IsPlaceholderName(n) == n = <<>> \/ n = <<"-">>

\* str.split(): the maximal runs of non-whitespace characters
RECURSIVE Words(_)
Words(s) ==
    LET t == LStrip(s)
        RECURSIVE WordEnd(_)
        WordEnd(k) == IF k < Len(t) /\ ~IsSpace(t[k + 1]) THEN WordEnd(k + 1) ELSE k
    IN  IF t = <<>> THEN <<>>
        ELSE <<SubSeq(t, 1, WordEnd(0))>> \o Words(SubSeq(t, WordEnd(0) + 1, Len(t)))

\* ' '.join(parts)
RECURSIVE JoinSpace(_)
JoinSpace(parts) ==
    IF parts = <<>> THEN <<>>
    ELSE IF Len(parts) = 1 THEN parts[1]
    ELSE parts[1] \o <<" ">> \o JoinSpace(Tail(parts))

Txt_QB == <<"Q", "B">>
Txt_WR == <<"W", "R">>
Txt_RB == <<"R", "B">>
Txt_TE == <<"T", "E">>
Txt_OL == <<"O", "L">>
Txt_DL == <<"D", "L">>
Txt_LB == <<"L", "B">>
Txt_CB == <<"C", "B">>
Txt_S == <<"S">>
Txt_K == <<"K">>
Txt_P == <<"P">>
Txt_Unknown == <<"U", "n", "k", "n", "o", "w", "n">>

\* MaddenScraperWorking.POSITION_MAP.get(madden_position, madden_position)
POSITION_MAP(pos) ==
    CASE pos = Txt_QB -> Txt_QB
      [] pos = <<"H", "B">> -> Txt_RB
      [] pos = <<"F", "B">> -> Txt_RB
      [] pos = Txt_WR -> Txt_WR
      [] pos = Txt_TE -> Txt_TE
      [] pos \in {<<"L", "T">>, <<"L", "G">>, <<"C">>, <<"R", "G">>, <<"R", "T">>} -> Txt_OL
      [] pos \in {<<"L", "E", "D", "G">>, <<"R", "E", "D", "G">>, <<"D", "T">>} -> Txt_DL
      [] pos \in {<<"M", "I", "K", "E">>, <<"S", "A", "M">>, <<"W", "I", "L", "L">>} -> Txt_LB
      [] pos = Txt_CB -> Txt_CB
      [] pos \in {<<"F", "S">>, <<"S", "S">>} -> Txt_S
      [] pos = Txt_K -> Txt_K
      [] pos \in {Txt_P, <<"L", "S">>} -> Txt_P
      [] OTHER -> pos

\* the thresholds taken as exclusive lower bounds
get_dev_trait_exclusive(overall) ==
    IF overall > 90 THEN "superstar"
    ELSE IF overall > 80 THEN "star"
    ELSE IF overall > 70 THEN "normal"
    ELSE "slow"

\* MaddenScraperWorking._get_dev_trait
get_dev_trait(overall) ==
    IF overall >= 90 THEN "superstar"
    ELSE IF overall >= 80 THEN "star"
    ELSE IF overall >= 70 THEN "normal"
    ELSE "slow"

Min(a, b) == IF a <= b THEN a ELSE b

\* MaddenScraperWorking._create_player_objects; the fields of Player and
\* PlayerAttributes that keep their dataclass defaults are left out
create_player_objects(full_name, madden_position, overall) ==
    LET name_parts == Words(Strip(full_name))
    IN  [player |->
            [first_name |-> IF name_parts # <<>> THEN name_parts[1] ELSE Txt_Unknown,
             last_name |-> IF Len(name_parts) > 1 THEN JoinSpace(Tail(name_parts))
                           ELSE <<>>,
             position |-> POSITION_MAP(madden_position)],
         attributes |->
            [overall |-> overall,
             potential |-> Min(overall + 5, 99),
             development_trait |-> get_dev_trait(overall)]]

(***************************************************************************)
(* The body of the per-row "try".  The outcome is [how, recs]: how is      *)
(* "append" (recs is the one record appended), "continue" (the row is      *)
(* skipped by a guard) or "except" (an exception was raised and caught by  *)
(* the row's "except Exception").                                          *)
(***************************************************************************)
Appended(rec) == [how |-> "append", recs |-> <<rec>>]

Skipped == [how |-> "continue", recs |-> <<>>]

Excepted == [how |-> "except", recs |-> <<>>]

\* scan_age with the scan ending at the first cell that holds a number,
\* whether or not the number is a plausible age
RECURSIVE scan_age_first_number(_, _)
scan_age_first_number(cols, i) ==
    IF i > Min(Len(cols), 6) THEN None
    ELSE LET parsed_age == parse_age(Strip(cols[i]))
         IN  IF parsed_age # None /\ parsed_age # {0}
             THEN IF \A a \in parsed_age : 18 <= a /\ a <= 50 THEN parsed_age ELSE None
             ELSE scan_age_first_number(cols, i + 1)

\* the age scan of SpotracRosterScraper.scrape_team_roster over cols[3:6]:
\* i is the index (from 1) of the next <td> to look at
RECURSIVE scan_age(_, _)
scan_age(cols, i) ==
    IF i > Min(Len(cols), 6) THEN None
    ELSE LET parsed_age == parse_age(Strip(cols[i]))
         IN  IF parsed_age # None /\ parsed_age # {0}
                /\ \A a \in parsed_age : 18 <= a /\ a <= 50
             THEN parsed_age
             ELSE scan_age(cols, i + 1)

\* SpotracRosterScraper.scrape_team_roster, one row
parse_row_roster(r) ==
    IF Len(r.cols) < MinCols("roster") THEN Skipped
    ELSE IF IsPlaceholderName(ExtractedName("roster", r)) THEN Skipped
    ELSE Appended([player_name |-> ExtractedName("roster", r),
                   position |-> Strip(r.cols[3]),
                   age |-> scan_age(r.cols, 4)])

\* "total_value = cap_hit * years" stored as it is, without the fallback
contract_total_value_no_fallback(cap_hit, years) == cap_hit * years

\* total_value = cap_hit * years; the Contract gets
\* "total_value if total_value > 0 else cap_hit"
contract_total_value(cap_hit, years) ==
    LET total_value == cap_hit * years
    IN  IF total_value > 0 THEN total_value ELSE cap_hit

\* the half rounded down instead of truncated toward zero
half_int_floor(base_salary) == base_salary \div 2

\* int(base_salary * 0.5): base_salary is a value of parse_money, that is
\* int() of a float, so base_salary * 0.5 is exact and int() truncates it
\* toward zero
half_int(base_salary) == TruncDiv(base_salary, 2)

\* SpotracScraper.scrape_team_contracts, one row
parse_row_contracts(r) ==
    IF Len(r.cols) < MinCols("contracts") THEN Skipped
    ELSE IF IsPlaceholderName(ExtractedName("contracts", r)) THEN Skipped
    ELSE
      LET n == Len(r.cols)
          cap == parse_money(r.cols[4])
          base == IF n > 6 THEN parse_money(r.cols[7]) ELSE cap
          sb == IF n > 7 THEN parse_money(r.cols[8]) ELSE Returned(0)
          rb == IF n > 9 THEN parse_money(r.cols[10]) ELSE Returned(0)
          cap_hit == cap.value
          base_salary == base.value
          total_signing_bonus == sb.value + rb.value
          years == 3
      IN  IF \E m \in {cap, base, sb, rb} : m.raised # "none" THEN Excepted
          ELSE Appended(
                [player_name |-> ExtractedName("contracts", r),
                 position |-> Strip(r.cols[2]),
                 age |-> parse_age(Strip(r.cols[3])),
                 base_salary_2025 |-> base_salary,
                 cap_hit_2025 |-> cap_hit,
                 total_value |-> contract_total_value(cap_hit, years),
                 years |-> years,
                 avg_salary |-> cap_hit,
                 guaranteed |-> total_signing_bonus + half_int(base_salary),
                 signing_bonus |-> total_signing_bonus])

\* MaddenScraperWorking.scrape_team_roster, one row
parse_row_madden(r, team_abbr) ==
    IF Len(r.cols) < MinCols("madden") THEN Skipped
    ELSE IF Len(r.links) < MinLinks THEN Skipped
    ELSE LET overall_match == FirstDigits(Strip(r.cols[3]))
             overall == IF overall_match # <<>> THEN DigitsToInt(overall_match) ELSE 70
             objs == create_player_objects(ExtractedName("madden", r),
                                           Strip(r.links[3]), overall)
         IN  Appended([player |-> objs.player, attributes |-> objs.attributes,
                       team_abbr |-> team_abbr])

parse_row(p, r, team_abbr) ==
    CASE p = "contracts" -> parse_row_contracts(r)
      [] p = "roster" -> parse_row_roster(r)
      [] p = "madden" -> parse_row_madden(r, team_abbr)

(***************************************************************************)
(* parse_money as a function of its argument: every text of at most        *)
(* MaxMoneyLen characters over MoneyAlphabet is an argument.               *)
(***************************************************************************)
MoneyAlphabet == {"$", ",", " ", "-", ".", "1", "M", "k", "i", "n", "f"}

RECURSIVE Texts(_, _)
Texts(A, n) ==
    IF n = 0 THEN {<<>>}
    ELSE LET T == Texts(A, n - 1) IN T \cup {Append(t, c) : t \in T, c \in A}

MoneyStrings == Texts(MoneyAlphabet, MaxMoneyLen)

Idle == "idle"

NotCalled == [raised |-> "pending", value |-> 0]

InitMoney ==
    /\ money_str \in MoneyStrings
    /\ money_res = NotCalled
    /\ pipeline = "contracts"
    /\ row = Idle /\ row_res = Idle /\ response = Idle /\ team_res = Idle
    /\ b_pc = Idle /\ limit = Idle /\ idx = 0 /\ all_results = Idle /\ events = Idle
    /\ m_pc = Idle /\ answer = Idle /\ files = Idle

\* cap_hit = self.parse_money(cols[3].text)
ParseMoneyCall ==
    /\ money_res = NotCalled
    /\ money_res' = parse_money(money_str)
    /\ UNCHANGED <<money_str, pipeline, row, row_res, response, team_res,
                   b_pc, limit, idx, all_results, events, m_pc, answer, files>>

NextMoney == ParseMoneyCall

SpecMoney == InitMoney /\ [][NextMoney]_vars

\* the argument as parse_money cleans it
Cleaned(s) == Strip(Remove(Remove(s, "$"), ","))

EndsWithSuffix(s) == s # <<>> /\ Upper(s)[Len(s)] \in {"M", "K"}

HasSuffixLetter(s) == Contains(Upper(s), "M") \/ Contains(Upper(s), "K")

\* C9: parse_money scales only when the cleaned text ends with M/m or K/k;
\* a text with M or K anywhere but at its end is not scaled, is no plain
\* number, and so yields 0.
C9_ScaleOnlyOnSuffix ==
    (/\ money_res.raised = "none"
     /\ HasSuffixLetter(Cleaned(money_str))
     /\ ~EndsWithSuffix(Cleaned(money_str)))
        => money_res.value = 0

\* C10: parse_money never raises, whatever the text.
C10_NeverRaises == money_res.raised \in {"pending", "none"}

(***************************************************************************)
(* The row parsers as functions of the row: every row of at most MaxCols   *)
(* cells whose cells are drawn from the texts below is an argument.        *)
(***************************************************************************)
AgeTexts ==
    {<<>>, <<"-">>, <<"2", "8", " ", "y">>, <<"5", "0">>, <<"5", "1">>,
     <<"1", "7", "a", "3", "0">>}

MoneyTexts == {<<>>, <<"$", "1", "1">>, <<"-", "1">>, <<"i", "n", "f">>}

OverallTexts ==
    {<<>>, <<"O", "V", "R">>, <<"6", "9">>, <<"7", "0">>, <<"7", "9">>, <<"8", "0">>,
     <<"8", "9">>, <<"9", "0">>, <<"9", "5">>, <<"9", "9">>, <<"1", "5", "0">>,
     <<" ", "8", "5", "y">>}

NameTexts == {<<>>, <<"-">>, <<"A">>, <<" ", "A", " ", "B", " ", "C">>}

MaddenPositions == {<<"L", "E", "D", "G">>, Txt_QB, <<"X", "X">>}

\* the <a> elements a name cell can hold
LinkSeqs(p) ==
    IF p = "madden"
    THEN {<<>>, <<<<>>>>}
         \cup {<<<<>>, n>> : n \in NameTexts}
         \cup {<<<<>>, n, q>> : n \in NameTexts, q \in MaddenPositions}
         \cup {<<<<>>, n, q, <<"x">>>> : n \in NameTexts, q \in MaddenPositions}
    ELSE {<<>>, <<<<>>>>, <<<<"A">>>>}

\* the text of a name cell outside its <a> elements
NameTails(p) == IF p = "madden" THEN {<<>>} ELSE {<<>>, <<"-">>, <<" ", "B", " ">>}

RECURSIVE Flatten(_)
Flatten(ts) == IF ts = <<>> THEN <<>> ELSE Head(ts) \o Flatten(Tail(ts))

\* the texts the k-th <td> (from 1) of a row can hold when the name cell
\* holds the links l; element.text is the text of all its descendants
CellTexts(p, l, k) ==
    IF k = NameCol(p) THEN {Flatten(l) \o t : t \in NameTails(p)}
    ELSE CASE p = "contracts" ->
                IF k = 2 THEN {Txt_QB}
                ELSE IF k = 3 THEN AgeTexts
                ELSE IF k \in {4, 7, 8, 10} THEN MoneyTexts
                ELSE {<<>>}
           [] p = "roster" ->
                IF k = 1 THEN {<<"1">>}
                ELSE IF k = 3 THEN {Txt_QB}
                ELSE IF k \in {4, 5, 6} THEN AgeTexts
                ELSE IF k = 7 THEN {<<>>, <<"2", "8", " ", "y">>}
                ELSE {<<>>}
           [] p = "madden" ->
                IF k = 1 THEN {<<"1">>}
                ELSE IF k = 3 THEN OverallTexts
                ELSE {<<>>}

RECURSIVE ColsOf(_, _, _)
ColsOf(p, l, n) ==
    IF n = 0 THEN {<<>>}
    ELSE {Append(c, t) : c \in ColsOf(p, l, n - 1), t \in CellTexts(p, l, n)}

Rows(p) ==
    UNION {{[cols |-> c, links |-> <<>>] : c \in ColsOf(p, <<>>, n)} :
                n \in 0..(NameCol(p) - 1)}
    \cup UNION {{[cols |-> c, links |-> l] : c \in ColsOf(p, l, n)} :
                l \in LinkSeqs(p), n \in NameCol(p)..MaxCols}

RowPending == [how |-> "pending", recs |-> <<>>]

InitRow ==
    /\ pipeline \in Pipelines
    /\ row \in Rows(pipeline)
    /\ row_res = RowPending
    /\ money_str = Idle /\ money_res = Idle /\ response = Idle /\ team_res = Idle
    /\ b_pc = Idle /\ limit = Idle /\ idx = 0 /\ all_results = Idle /\ events = Idle
    /\ m_pc = Idle /\ answer = Idle /\ files = Idle

\* one pass of "for row in rows:" in the per-team scrape of a pipeline
ParseRow ==
    /\ row_res = RowPending
    /\ row_res' = parse_row(pipeline, row, "KC")
    /\ UNCHANGED <<money_str, money_res, pipeline, row, response, team_res,
                   b_pc, limit, idx, all_results, events, m_pc, answer, files>>

NextRow == ParseRow

SpecRow == InitRow /\ [][NextRow]_vars

RowParsed == row_res.how # "pending"

\* the row passes the guards that come before the name is looked at
RowHasName ==
    /\ Len(row.cols) >= MinCols(pipeline)
    /\ pipeline = "madden" => Len(row.links) >= MinLinks

\* C6: in every pipeline a row whose extracted name is empty or "-" is
\* skipped: it produces no record.
C6_PlaceholderNameSkipped ==
    (RowParsed /\ RowHasName /\ IsPlaceholderName(ExtractedName(pipeline, row)))
        => row_res.recs = <<>>

AgePlausible(age) == \A a \in age : 18 <= a /\ a <= 50

\* C7: every record of a source B pipeline has an age that is None or an
\* integer within [18, 50].
C7_SourceBAgeInRange ==
    (RowParsed /\ pipeline \in {"roster", "contracts"})
        => \A k \in 1..Len(row_res.recs) : AgePlausible(row_res.recs[k].age)

\* the first integer substring of a cell's text
FirstInteger(t) == DigitsToInt(FirstDigits(Strip(t)))

\* a cell that is not empty, not "-", has digits, and whose first integer
\* lies in [18, 50]
CellQualifies(t) ==
    /\ Strip(t) # <<>>
    /\ Strip(t) # <<"-">>
    /\ FirstDigits(Strip(t)) # <<>>
    /\ 18 <= FirstInteger(t) /\ FirstInteger(t) <= 50

\* the cell indices 3, 4, 5 (from 0) that the row has and that qualify
QualifyingCells(cols) == {k \in 3..5 : k + 1 <= Len(cols) /\ CellQualifies(cols[k + 1])}

SmallestOf(S) == CHOOSE k \in S : \A j \in S : k <= j

\* C8: the age of a source B roster record is the first integer of the first
\* cell among indices 3, 4, 5 that qualifies, and None when none does; cells
\* at index 6 and beyond play no part.
C8_RosterAgeWindow ==
    (RowParsed /\ pipeline = "roster" /\ row_res.how = "append")
        => row_res.recs[1].age =
              IF QualifyingCells(row.cols) = {} THEN None
              ELSE {FirstInteger(row.cols[SmallestOf(QualifyingCells(row.cols)) + 1])}

\* a roster row whose cell 3 holds 51 and cell 4 holds "17a30" (both
\* rejected), whose cell 5 holds "28 y", and whose record has age 28
C8_Witness ==
    /\ pipeline = "roster"
    /\ row_res.how = "append"
    /\ Len(row.cols) >= 7
    /\ row.cols[4] = <<"5", "1">>
    /\ row.cols[5] = <<"1", "7", "a", "3", "0">>
    /\ row.cols[6] = <<"2", "8", " ", "y">>
    /\ row.cols[7] = <<"2", "8", " ", "y">>
    /\ row_res.recs[1].age = {28}

(***************************************************************************)
(* The Contract records of scrape_team_contracts.                          *)
(***************************************************************************)
ContractEmitted == pipeline = "contracts" /\ row_res.how = "append"

\* C11 as stated: every Contract emitted has years = 3, avg_salary =
\* cap_hit_2025 and total_value = cap_hit_2025 * 3, whatever the cap hit
\* parse_money returned, zero and negative amounts included.
C11_TotalValueAlwaysTriple ==
    ContractEmitted =>
        \A c \in {row_res.recs[1]} :
            /\ c.years = 3
            /\ c.avg_salary = c.cap_hit_2025
            /\ c.total_value = c.cap_hit_2025 * 3

\* C11: every Contract emitted has years = 3 and avg_salary = cap_hit_2025;
\* its total_value is cap_hit_2025 * 3 when the cap hit is positive and the
\* cap hit itself when the cap hit is zero or negative.
C11_TotalValueTripleWhenPositive ==
    ContractEmitted =>
        \A c \in {row_res.recs[1]} :
            /\ c.years = 3
            /\ c.avg_salary = c.cap_hit_2025
            /\ c.cap_hit_2025 > 0 => c.total_value = c.cap_hit_2025 * 3
            /\ c.cap_hit_2025 <= 0 => c.total_value = c.cap_hit_2025

\* a Contract whose cap-hit cell reads "-1"
C11_Witness ==
    /\ ContractEmitted
    /\ row.cols[4] = <<"-", "1">>
    /\ row_res.recs[1].cap_hit_2025 = -1
    /\ row_res.recs[1].total_value = -1
    /\ row_res.recs[1].years = 3

\* the amount in the <td> at Python index k of the row, or dflt when the row
\* has no such cell
MoneyCellOr(k, dflt) ==
    IF Len(row.cols) > k THEN parse_money(row.cols[k + 1]).value ELSE dflt

\* the integer h with 2h <= b < 2h + 2 for b >= 0, and 2h - 2 < b <= 2h else
HalfTowardZero(b) ==
    LET m == IF b >= 0 THEN b ELSE -b
    IN  CHOOSE h \in -m..m : IF b >= 0 THEN 2 * h <= b /\ b < 2 * h + 2
                             ELSE 2 * h - 2 < b /\ b <= 2 * h

\* C12: every Contract emitted has guaranteed = signing_bonus + the half of
\* base_salary_2025 truncated toward zero, where signing_bonus is the amount
\* of cell 7 plus the amount of cell 9 (0 for a cell the row does not have)
\* and base_salary_2025 is the amount of cell 6 or, in a row of fewer than 7
\* cells, the cap hit.
C12_GuaranteedFormula ==
    ContractEmitted =>
        \A c \in {row_res.recs[1]} :
            /\ c.signing_bonus = MoneyCellOr(7, 0) + MoneyCellOr(9, 0)
            /\ c.base_salary_2025 = MoneyCellOr(6, c.cap_hit_2025)
            /\ c.cap_hit_2025 = MoneyCellOr(3, 0)
            /\ c.guaranteed = c.signing_bonus + HalfTowardZero(c.base_salary_2025)

\* a Contract from a row of ten cells with a negative odd base salary and
\* both bonuses
C12_Witness ==
    /\ ContractEmitted
    /\ Len(row.cols) = 10
    /\ row.cols[7] = <<"-", "1">>
    /\ row.cols[8] = <<"$", "1", "1">>
    /\ row.cols[10] = <<"$", "1", "1">>
    /\ row_res.recs[1].base_salary_2025 = -1
    /\ row_res.recs[1].signing_bonus = 22
    /\ row_res.recs[1].guaranteed = 22

(***************************************************************************)
(* The PlayerAttributes records of the madden pipeline.                    *)
(***************************************************************************)
AttributesEmitted == pipeline = "madden" /\ row_res.how = "append"

\* the text of the rating cell holds no digit
NoRatingDigits == FirstDigits(Strip(row.cols[3])) = <<>>

\* the ratings the tiers are looked at on, beyond those a rating cell holds
DevRange == -5..160

\* on every rating of DevRange _get_dev_trait returns one of the four tiers,
\* and each tier on exactly its interval
DevTiersOnRange ==
    \A o \in DevRange :
        /\ get_dev_trait(o) \in {"superstar", "star", "normal", "slow"}
        /\ get_dev_trait(o) = "superstar" <=> o >= 90
        /\ get_dev_trait(o) = "star" <=> (80 <= o /\ o <= 89)
        /\ get_dev_trait(o) = "normal" <=> (70 <= o /\ o <= 79)
        /\ get_dev_trait(o) = "slow" <=> o < 70

\* C13: _get_dev_trait gives every integer overall exactly one tier:
\* superstar iff overall >= 90, star iff 80..89, normal iff 70..79, slow iff
\* below 70; and every PlayerAttributes emitted stores the tier of its own
\* overall, which is 70 when the rating cell has no digits.
C13_DevTraitTiers ==
    /\ DevTiersOnRange
    /\ AttributesEmitted =>
          \A a \in {row_res.recs[1].attributes} :
              /\ a.development_trait = "superstar" <=> a.overall >= 90
              /\ a.development_trait = "star" <=> (80 <= a.overall /\ a.overall <= 89)
              /\ a.development_trait = "normal" <=> (70 <= a.overall /\ a.overall <= 79)
              /\ a.development_trait = "slow" <=> a.overall < 70
              /\ NoRatingDigits => a.overall = 70

\* a record whose rating cell reads "90", stored as superstar
C13_Witness ==
    /\ AttributesEmitted
    /\ row.cols[3] = <<"9", "0">>
    /\ row_res.recs[1].attributes.overall = 90
    /\ row_res.recs[1].attributes.development_trait = "superstar"

\* C16: every PlayerAttributes emitted has overall <= potential <= 99,
\* whatever run of digits the rating cell starts its number with.
C16_PotentialBounds ==
    AttributesEmitted =>
        \A a \in {row_res.recs[1].attributes} :
            a.overall <= a.potential /\ a.potential <= 99

(***************************************************************************)
(* The per-team scrape: scrape_team_contracts and, in the two roster       *)
(* scripts, scrape_team_roster.                                            *)
(***************************************************************************)
\* TEAMS.items(), in insertion order; the table is the same in the three scripts
TEAMS ==
    <<<<"arizona-cardinals", "ARI">>,
      <<"atlanta-falcons", "ATL">>,
      <<"baltimore-ravens", "BAL">>,
      <<"buffalo-bills", "BUF">>,
      <<"carolina-panthers", "CAR">>,
      <<"chicago-bears", "CHI">>,
      <<"cincinnati-bengals", "CIN">>,
      <<"cleveland-browns", "CLE">>,
      <<"dallas-cowboys", "DAL">>,
      <<"denver-broncos", "DEN">>,
      <<"detroit-lions", "DET">>,
      <<"green-bay-packers", "GB">>,
      <<"houston-texans", "HOU">>,
      <<"indianapolis-colts", "IND">>,
      <<"jacksonville-jaguars", "JAX">>,
      <<"kansas-city-chiefs", "KC">>,
      <<"las-vegas-raiders", "LV">>,
      <<"los-angeles-chargers", "LAC">>,
      <<"los-angeles-rams", "LAR">>,
      <<"miami-dolphins", "MIA">>,
      <<"minnesota-vikings", "MIN">>,
      <<"new-england-patriots", "NE">>,
      <<"new-orleans-saints", "NO">>,
      <<"new-york-giants", "NYG">>,
      <<"new-york-jets", "NYJ">>,
      <<"philadelphia-eagles", "PHI">>,
      <<"pittsburgh-steelers", "PIT">>,
      <<"san-francisco-49ers", "SF">>,
      <<"seattle-seahawks", "SEA">>,
      <<"tampa-bay-buccaneers", "TB">>,
      <<"tennessee-titans", "TEN">>,
      <<"washington-commanders", "WAS">>>>

NumTeams == Len(TEAMS)

TeamSlug(i) == TEAMS[i][1]

\* self.TEAMS.get(team_slug, "UNK")
TeamAbbr(slug) ==
    IF \E i \in 1..NumTeams : TEAMS[i][1] = slug
    THEN TEAMS[CHOOSE i \in 1..NumTeams : TEAMS[i][1] = slug][2]
    ELSE "UNK"

(***************************************************************************)
(* What session.get produces is [exc, status, tables]: exc is the          *)
(* requests exception it raises ("none" when it returns a response),       *)
(* status the status code of the response, and tables the tables of the    *)
(* page the locator looks for, each None when the page has no such table:  *)
(* <<table_active, table_injured>> for contracts, <<table.team-roster>>    *)
(* for roster, <<the first table>> for madden.  A table is the sequence of *)
(* its <tr> rows.                                                          *)
(***************************************************************************)
\* response = self.session.get(url, timeout=...); response.raise_for_status():
\* raise_for_status raises HTTPError for a status in 400..599
fetch_no_status_check(resp) == IF resp.exc # "none" THEN resp.exc ELSE "ok"

fetch(resp) ==
    IF resp.exc # "none" THEN resp.exc
    ELSE IF 400 <= resp.status /\ resp.status < 600 THEN "HTTPError"
    ELSE "ok"

\* the tables the locator finds, in the order it looks for them
locate(resp) ==
    LET found == SelectSeq(resp.tables, LAMBDA t : t # None)
    IN  [k \in 1..Len(found) |-> CHOOSE tbl \in found[k] : TRUE]

\* table.find_all('tr')[1:] in source B, table.find_all('tr') in madden
table_rows(p, tbl) ==
    IF p = "madden" THEN tbl
    ELSE IF tbl = <<>> THEN <<>> ELSE Tail(tbl)

\* rows.extend(...) over the tables found
RECURSIVE all_rows(_, _)
all_rows(p, tables) ==
    IF tables = <<>> THEN <<>>
    ELSE table_rows(p, Head(tables)) \o all_rows(p, Tail(tables))

\* the row loop with an exception in a row ending the scrape with [] (the
\* outer "except Exception: return []") instead of skipping the row
RECURSIVE rows_loop_abort(_, _, _, _)
rows_loop_abort(p, rows, acc, team_abbr) ==
    IF rows = <<>> THEN acc
    ELSE LET r == parse_row(p, Head(rows), team_abbr)
         IN  IF r.how = "except" THEN <<>>
             ELSE rows_loop_abort(p, Tail(rows), acc \o r.recs, team_abbr)

\* "for row in rows:" with acc the list built so far
RECURSIVE rows_loop(_, _, _, _)
rows_loop(p, rows, acc, team_abbr) ==
    IF rows = <<>> THEN acc
    ELSE LET r == parse_row(p, Head(rows), team_abbr)
         IN  rows_loop(p, Tail(rows),
                       IF r.how = "append" THEN acc \o r.recs ELSE acc, team_abbr)

\* the call's outcome: the list returned, the exception that leaves the
\* call ("none" when it returns), and the number of GETs it issued
TeamOutcome(ret, raised, gets) == [ret |-> ret, raised |-> raised, gets |-> gets]

\* the body of the outer "try": one session.get, then the table locator and
\* the row loop
team_try(p, team_slug, resp) ==
    LET team_abbr == TeamAbbr(team_slug)
        got == fetch(resp)
    IN  IF got # "ok" THEN TeamOutcome(<<>>, got, 1)
        ELSE IF locate(resp) = <<>> THEN TeamOutcome(<<>>, "none", 1)
        ELSE TeamOutcome(rows_loop(p, all_rows(p, locate(resp)), <<>>, team_abbr),
                         "none", 1)

\* the per-team scrape without its "except" clauses
scrape_team_no_except(p, team_slug, resp) == team_try(p, team_slug, resp)

\* "except requests.RequestException: return []" and "except Exception:
\* return []" (madden: "except Exception: return []")
scrape_team(p, team_slug, resp) ==
    LET t == team_try(p, team_slug, resp)
    IN  IF t.raised # "none" THEN TeamOutcome(<<>>, "none", t.gets) ELSE t

(***************************************************************************)
(* The per-team scrape as a function of what the GET produces.  The pages  *)
(* are built from four rows per pipeline: a header row, two data rows with *)
(* the same player name, and a row that yields no record                   *)
(* (contracts: its cap hit is "inf"; roster: its name is "-"; madden: its  *)
(* name cell has two links).                                               *)
(***************************************************************************)
RowH == [cols |-> <<>>, links |-> <<>>]

ContractsCols(pos, cap) ==
    <<<<"A">>, pos, <<"2", "8", " ", "y">>, cap, <<>>, <<>>, <<"$", "1", "1">>,
      <<>>, <<>>, <<>>>>

\* a data row of player "A" at position pos
RowA(p, pos) ==
    CASE p = "contracts" ->
            [cols |-> ContractsCols(pos, <<"$", "1", "1">>), links |-> <<<<"A">>>>]
      [] p = "roster" ->
            [cols |-> <<<<"1">>, <<"A">>, pos, <<"2", "8", " ", "y">>>>,
             links |-> <<<<"A">>>>]
      [] p = "madden" ->
            [cols |-> <<<<"1">>, <<"A">> \o pos, <<"9", "0">>>>,
             links |-> <<<<>>, <<"A">>, pos>>]

\* a row that yields no record
RowX(p) ==
    CASE p = "contracts" ->
            [cols |-> ContractsCols(Txt_QB, <<"i", "n", "f">>), links |-> <<<<"A">>>>]
      [] p = "roster" ->
            [cols |-> <<<<"1">>, <<"-">>, Txt_QB, <<"2", "8", " ", "y">>>>,
             links |-> <<>>]
      [] p = "madden" ->
            [cols |-> <<<<"1">>, <<"A">>, <<"9", "0">>>>, links |-> <<<<>>, <<"A">>>>]

TeamRows(p) == {RowH, RowA(p, Txt_QB), RowA(p, Txt_WR), RowX(p)}

\* the sequences of at most n rows
RECURSIVE RowSeqs(_, _)
RowSeqs(p, n) ==
    IF n = 0 THEN {<<>>}
    ELSE LET T == RowSeqs(p, n - 1)
         IN  T \cup {Append(t, r) : t \in T, r \in TeamRows(p)}

\* a table: no <tr> at all, or a first row (the header row, or a data row
\* when the table has no header) and at most MaxTableRows rows after it
Tables(p) ==
    {<<>>} \cup {<<f>> \o d : f \in {RowH, RowA(p, Txt_QB)}, d \in RowSeqs(p, MaxTableRows)}

OptTables(p) == {None} \cup {{t} : t \in Tables(p)}

Pages(p) ==
    IF p = "contracts" THEN {<<a, b>> : a \in OptTables(p), b \in OptTables(p)}
    ELSE {<<a>> : a \in OptTables(p)}

\* a page with one table: a header row and the data row A
PageOneRecord(p) ==
    IF p = "contracts" THEN <<{<<RowH, RowA(p, Txt_QB)>>}, None>>
    ELSE <<{<<RowH, RowA(p, Txt_QB)>>}>>

PageNoTable(p) == IF p = "contracts" THEN <<None, None>> ELSE <<None>>

Responses(p) ==
    {[exc |-> e, status |-> 0, tables |-> <<>>] : e \in {"ConnectionError", "Timeout"}}
    \cup {[exc |-> "none", status |-> 200, tables |-> pg] : pg \in Pages(p)}
    \cup {[exc |-> "none", status |-> st, tables |-> pg] :
             st \in {300, 404, 503}, pg \in {PageNoTable(p), PageOneRecord(p)}}

TeamPending == [ret |-> <<>>, raised |-> "pending", gets |-> 0]

InitTeam ==
    /\ pipeline \in Pipelines
    /\ response \in Responses(pipeline)
    /\ team_res = TeamPending
    /\ money_str = Idle /\ money_res = Idle /\ row = Idle /\ row_res = Idle
    /\ b_pc = Idle /\ limit = Idle /\ idx = 0 /\ all_results = Idle /\ events = Idle
    /\ m_pc = Idle /\ answer = Idle /\ files = Idle

\* main: scraper.scrape_team_contracts("kansas-city-chiefs"), and
\* scrape_team_roster("kansas-city-chiefs") in the roster scripts
ScrapeTeamCall ==
    /\ team_res = TeamPending
    /\ team_res' = scrape_team(pipeline, "kansas-city-chiefs", response)
    /\ UNCHANGED <<money_str, money_res, pipeline, row, row_res, response,
                   b_pc, limit, idx, all_results, events, m_pc, answer, files>>

NextTeam == ScrapeTeamCall

SpecTeam == InitTeam /\ [][NextTeam]_vars

TeamCalled == team_res # TeamPending

\* the GET failed, timed out, or returned a status outside 200..299
GetFailedOrNon2xx ==
    response.exc # "none" \/ response.status < 200 \/ response.status > 299

\* the GET failed, timed out, or returned a 4xx or 5xx status
GetFailedOr4xx5xx ==
    response.exc # "none" \/ (400 <= response.status /\ response.status <= 599)

\* the response's page has none of the tables the locator looks for
NoMatchingTable ==
    response.exc = "none" /\ \A k \in 1..Len(response.tables) : response.tables[k] = None

EmptyNoRaiseOneGet ==
    team_res.ret = <<>> /\ team_res.raised = "none" /\ team_res.gets = 1

\* C2, as stated: when the GET fails, times out or returns a non-2xx status,
\* or the page has no matching table, the per-team scrape returns [], lets
\* no exception escape and has issued exactly one GET.
C2_FailureGivesEmpty ==
    (TeamCalled /\ (GetFailedOrNon2xx \/ NoMatchingTable)) => EmptyNoRaiseOneGet

\* C2, amended: the same, for a GET that fails, times out or returns a 4xx
\* or 5xx status (the statuses raise_for_status raises for), or a page with
\* no matching table.
C2_ErrorStatusGivesEmpty ==
    (TeamCalled /\ (GetFailedOr4xx5xx \/ NoMatchingTable)) => EmptyNoRaiseOneGet

\* a 404 response whose page does hold a table with a valid row, scraped to []
C2_Witness ==
    /\ TeamCalled
    /\ response.exc = "none" /\ response.status = 404
    /\ response.tables = PageOneRecord(pipeline)
    /\ EmptyNoRaiseOneGet

\* the rows the claim speaks of: for contracts the rows of the active table
\* and then those of the injured-reserve table, each without its first row;
\* for roster the table's rows without the first; for madden the table's rows
RowsAfterFirst(opt) ==
    IF opt = None THEN <<>>
    ELSE LET tbl == CHOOSE t \in opt : TRUE
         IN  SubSeq(tbl, 2, Len(tbl))

ClaimRows ==
    CASE pipeline = "contracts" ->
            RowsAfterFirst(response.tables[1]) \o RowsAfterFirst(response.tables[2])
      [] pipeline = "roster" -> RowsAfterFirst(response.tables[1])
      [] pipeline = "madden" ->
            IF response.tables[1] = None THEN <<>>
            ELSE CHOOSE t \in response.tables[1] : TRUE

RowOutcome(k) == parse_row(pipeline, ClaimRows[k], "KC")

ValidRowIdx == {k \in 1..Len(ClaimRows) : RowOutcome(k).how = "append"}

\* the position in the returned list of the record of valid row k
RankOf(k) == Cardinality({j \in ValidRowIdx : j <= k})

\* C3: the list returned is exactly the records of the valid rows, in table
\* row order (active before injured reserve); a row that raises is skipped
\* alone, and rows with the same name each give their record.
C3_ValidRowsInOrder ==
    (TeamCalled /\ fetch(response) = "ok")
        => /\ team_res.raised = "none"
           /\ Len(team_res.ret) = Cardinality(ValidRowIdx)
           /\ \A k \in ValidRowIdx : team_res.ret[RankOf(k)] = RowOutcome(k).recs[1]

\* contracts: a row that raises lies between two valid rows of the same
\* player name, the second in the injured-reserve table; both records are
\* returned, in order
C3_Witness ==
    /\ TeamCalled
    /\ pipeline = "contracts"
    /\ fetch(response) = "ok"
    /\ response.tables[1] # None /\ response.tables[2] # None
    /\ Len(ClaimRows) = 3
    /\ RowOutcome(1).how = "append"
    /\ RowOutcome(2).how = "except"
    /\ RowOutcome(3).how = "append"
    /\ Len(RowsAfterFirst(response.tables[1])) = 2
    /\ Len(team_res.ret) = 2
    /\ team_res.ret[1].player_name = team_res.ret[2].player_name
    /\ team_res.ret[1].position = Txt_QB
    /\ team_res.ret[2].position = Txt_WR

(***************************************************************************)
(* scrape_all_teams.  Each pass of its loop is one step: the per-team      *)
(* scrape of the next team, on whatever the GET produces, the store of its *)
(* result, and the rate-limit sleep.  events logs the scrapes (with the    *)
(* number of records each returned) and the sleeps, in order.              *)
(***************************************************************************)
\* "if idx < 32:  # Don't wait after last team"
SleepBelowIdx == 32

\* the rate-limit rule of madden applied in every pipeline
sleep_if_players(p, i, players) == players # <<>>

\* whether the pass for the i-th team (from 1), whose scrape returned
\* players, sleeps: "if idx < 32" in source B, "if players" in madden
rate_limit_sleeps(p, i, players) ==
    IF p = "madden" THEN players # <<>> ELSE i < SleepBelowIdx

\* teams = list(self.TEAMS.keys()); if limit: teams = teams[:limit]
\* (source B has no limit and enumerates self.TEAMS.items())
teams_of(p, lim) ==
    LET slugs == [i \in 1..NumTeams |-> TeamSlug(i)]
    IN  IF p = "madden" /\ lim # None /\ lim # {0}
        THEN LET n == CHOOSE k \in lim : TRUE IN SubSeq(slugs, 1, Min(n, NumTeams))
        ELSE slugs

\* all_contracts[team_slug] = contracts  /  all_players.extend(players)
store_result(p, all, team_slug, players) ==
    IF p = "madden" THEN all \o players
    ELSE [s \in DOMAIN all \cup {team_slug} |-> IF s = team_slug THEN players ELSE all[s]]

LimitValues == {None, {0}, {1}, {33}}

\* what the GET of one team of the batch produces
BatchResponses(p) ==
    {[exc |-> "ConnectionError", status |-> 0, tables |-> <<>>],
     [exc |-> "none", status |-> 503, tables |-> PageOneRecord(p)],
     [exc |-> "none", status |-> 200, tables |-> PageNoTable(p)],
     [exc |-> "none", status |-> 200,
      tables |-> IF p = "contracts" THEN <<{<<RowH>>}, {<<RowH, RowX(p)>>}>>
                 ELSE <<{<<RowH, RowX(p)>>}>>],
     [exc |-> "none", status |-> 200, tables |-> PageOneRecord(p)]}

ScrapeEvent(slug, n) == [op |-> "scrape", team |-> slug, n |-> n]

SleepEvent(slug) == [op |-> "sleep", team |-> slug, n |-> 0]

Scrapes(ev) == SelectSeq(ev, LAMBDA e : e.op = "scrape")

Sleeps(ev) == SelectSeq(ev, LAMBDA e : e.op = "sleep")

\* the number of scrapes logged in ev that returned no record / some record
EmptyScrapes(ev) == Cardinality({j \in 1..Len(ev) : ev[j].op = "scrape" /\ ev[j].n = 0})

FilledScrapes(ev) == Cardinality({j \in 1..Len(ev) : ev[j].op = "scrape" /\ ev[j].n > 0})

\* the bound on the runs explored: with one more scrape that returns n
\* records, the teams that returned no record, or else the teams that
\* returned some, number at most MaxMixed
WithinMixed(ev, n) ==
    Min(EmptyScrapes(ev) + (IF n = 0 THEN 1 ELSE 0),
        FilledScrapes(ev) + (IF n > 0 THEN 1 ELSE 0)) <= MaxMixed

InitBatch ==
    /\ pipeline \in Pipelines
    /\ limit \in (IF pipeline = "madden" THEN LimitValues ELSE {None})
    /\ b_pc = "loop"
    /\ idx = 0
    /\ all_results = <<>>
    /\ events = <<>>
    /\ money_str = Idle /\ money_res = Idle /\ row = Idle /\ row_res = Idle
    /\ response = Idle /\ team_res = Idle
    /\ m_pc = Idle /\ answer = Idle /\ files = Idle

\* what the per-team scrape of the i-th team can come to in pipeline p: its
\* outcome on each thing the GET can produce
BatchOutcomes ==
    [p \in Pipelines |->
        [i \in 1..NumTeams |->
            {scrape_team(p, TeamSlug(i), resp) : resp \in BatchResponses(p)}]]

\* one pass of "for idx, ... in enumerate(..., 1):" in which the per-team
\* scrape comes to out; an exception leaving the per-team scrape would leave
\* scrape_all_teams too
BatchPass(out) ==
    /\ b_pc = "loop"
    /\ idx < Len(teams_of(pipeline, limit))
    /\ LET team_slug == teams_of(pipeline, limit)[idx + 1]
           scraped == Append(events, ScrapeEvent(team_slug, Len(out.ret)))
       IN  /\ WithinMixed(events, Len(out.ret))
           /\ idx' = idx + 1
           /\ IF out.raised # "none"
              THEN /\ b_pc' = "raised"
                   /\ events' = scraped
                   /\ UNCHANGED all_results
              ELSE /\ b_pc' = "loop"
                   /\ all_results' = store_result(pipeline, all_results, team_slug, out.ret)
                   /\ events' = IF rate_limit_sleeps(pipeline, idx + 1, out.ret)
                                THEN Append(scraped, SleepEvent(team_slug))
                                ELSE scraped
    /\ UNCHANGED <<money_str, money_res, pipeline, row, row_res, response, team_res, limit,
                   m_pc, answer, files>>

\* one pass of the loop, on whatever the GET of its team produces
BatchIter ==
    /\ b_pc = "loop"
    /\ idx < Len(teams_of(pipeline, limit))
    /\ \E out \in BatchOutcomes[pipeline][idx + 1] : BatchPass(out)

\* the loop is exhausted: the summary is printed and the result returned
BatchReturn ==
    /\ b_pc = "loop"
    /\ idx = Len(teams_of(pipeline, limit))
    /\ b_pc' = "done"
    /\ UNCHANGED <<money_str, money_res, pipeline, row, row_res, response, team_res,
                   limit, idx, all_results, events, m_pc, answer, files>>

NextBatch == BatchIter \/ BatchReturn

SpecBatch == InitBatch /\ [][NextBatch]_vars

\* the script is one sequential thread: a pass that can run does run (every
\* GET has a timeout and every sleep ends)
SpecBatchFair == SpecBatch /\ WF_vars(NextBatch)

AllSlugs == [i \in 1..NumTeams |-> TeamSlug(i)]

ScrapedSlugs == [k \in 1..Len(Scrapes(events)) |-> Scrapes(events)[k].team]

BatchComplete ==
    /\ ScrapedSlugs = AllSlugs
    /\ pipeline # "madden" =>
          /\ DOMAIN all_results = {AllSlugs[i] : i \in 1..NumTeams}
          /\ \A k \in 1..NumTeams :
                /\ Len(all_results[AllSlugs[k]]) = Scrapes(events)[k].n
                /\ Scrapes(events)[k].n = 0 => all_results[AllSlugs[k]] = <<>>

\* C1: scrape_all_teams without a limit terminates, having scraped each of
\* the 32 teams exactly once, in TEAMS order, whatever each scrape's outcome;
\* in source B the mapping returned has all 32 slugs as keys, with [] for
\* each failed team.
C1_EveryTeamOnce ==
    /\ <>(b_pc = "done")
    /\ []((b_pc = "done" /\ limit = None) => BatchComplete)
    /\ []((b_pc = "loop" /\ limit = None) => ScrapedSlugs = SubSeq(AllSlugs, 1, idx))

\* a finished source B run in which some team failed and some team did not
C1_Witness ==
    /\ b_pc = "done"
    /\ pipeline = "contracts"
    /\ \E k \in 1..NumTeams : all_results[AllSlugs[k]] = <<>>
    /\ \E k \in 1..NumTeams : all_results[AllSlugs[k]] # <<>>
    /\ Len(Scrapes(events)) = 32

\* the number of scrapes among the first j events
ScrapesUpTo(j) == Len(Scrapes(SubSeq(events, 1, j)))

\* every scrape but the last-th is directly followed by a sleep, the last-th
\* scrape by none, and a sleep only ever follows a scrape
SleepsBetween(last) ==
    \A j \in 1..Len(events) :
        /\ events[j].op = "scrape" =>
              IF ScrapesUpTo(j) < last
              THEN j < Len(events) /\ events[j + 1].op = "sleep"
              ELSE j = Len(events)
        /\ events[j].op = "sleep" => (j > 1 /\ events[j - 1].op = "scrape")

\* C4: in source B, scrape_all_teams sleeps after each of the first 31 team
\* scrapes, failed or not, and not after the 32nd: 31 sleeps in a full run.
C4_SourceBSleeps ==
    pipeline \in {"roster", "contracts"} =>
        /\ SleepsBetween(32)
        /\ b_pc = "done" => Len(Sleeps(events)) = 31

\* a finished roster run with 31 sleeps, one of them after a failed scrape
C4_Witness ==
    /\ pipeline = "roster"
    /\ b_pc = "done"
    /\ Len(Sleeps(events)) = 31
    /\ \E j \in 1..(Len(events) - 1) :
          events[j].op = "scrape" /\ events[j].n = 0 /\ events[j + 1].op = "sleep"
    /\ events[Len(events)].op = "scrape"

\* C5: in madden, scrape_all_teams sleeps between every two consecutive
\* team requests, also after a failed or empty scrape, and not after the
\* last team.
C5_MaddenSleepsBetween ==
    (pipeline = "madden" /\ limit = None) => SleepsBetween(Len(teams_of(pipeline, limit)))

\* the first Min(n, 32) slugs of TEAMS
FirstTeams(n) == SubSeq(AllSlugs, 1, Min(n, NumTeams))

\* C17: in madden, scrape_all_teams(limit=n) with an integer n >= 0 scrapes
\* the first min(n, 32) teams of TEAMS, in order, and no other; limit=0
\* scrapes no team and returns an empty list.
C17_LimitFetchesFirstN ==
    (pipeline = "madden" /\ limit # None) =>
        \A n \in limit :
            /\ Len(ScrapedSlugs) <= Min(n, NumTeams)
            /\ ScrapedSlugs = SubSeq(FirstTeams(n), 1, Len(ScrapedSlugs))
            /\ b_pc = "done" => ScrapedSlugs = FirstTeams(n)
            /\ (b_pc = "done" /\ n = 0) => all_results = <<>>

(***************************************************************************)
(* export_to_json.  files is the sequence of the files written, each       *)
(* [name, data], in the order of the open(filepath, 'w') calls; a later    *)
(* write to a name replaces the earlier file of that name.                 *)
(***************************************************************************)
UpperLetters == <<"A", "B", "C", "D", "E", "F", "G", "H", "I", "J", "K", "L", "M">>
                \o <<"N", "O", "P", "Q", "R", "S", "T", "U", "V", "W", "X", "Y", "Z">>

LowerLetters == <<"a", "b", "c", "d", "e", "f", "g", "h", "i", "j", "k", "l", "m">>
                \o <<"n", "o", "p", "q", "r", "s", "t", "u", "v", "w", "x", "y", "z">>

\* str.lower() on one character, and on a text
LowerChar(c) ==
    IF \E i \in 1..Len(UpperLetters) : UpperLetters[i] = c
    THEN LowerLetters[CHOOSE i \in 1..Len(UpperLetters) : UpperLetters[i] = c]
    ELSE c

Lower(s) == [i \in 1..Len(s) |-> LowerChar(s[i])]

\* the characters of a team abbreviation of TEAMS
AbbrText(abbr) ==
    CASE abbr = "ARI" -> <<"A", "R", "I">>
      [] abbr = "ATL" -> <<"A", "T", "L">>
      [] abbr = "BAL" -> <<"B", "A", "L">>
      [] abbr = "BUF" -> <<"B", "U", "F">>
      [] abbr = "CAR" -> <<"C", "A", "R">>
      [] abbr = "CHI" -> <<"C", "H", "I">>
      [] abbr = "CIN" -> <<"C", "I", "N">>
      [] abbr = "CLE" -> <<"C", "L", "E">>
      [] abbr = "DAL" -> <<"D", "A", "L">>
      [] abbr = "DEN" -> <<"D", "E", "N">>
      [] abbr = "DET" -> <<"D", "E", "T">>
      [] abbr = "GB" -> <<"G", "B">>
      [] abbr = "HOU" -> <<"H", "O", "U">>
      [] abbr = "IND" -> <<"I", "N", "D">>
      [] abbr = "JAX" -> <<"J", "A", "X">>
      [] abbr = "KC" -> <<"K", "C">>
      [] abbr = "LV" -> <<"L", "V">>
      [] abbr = "LAC" -> <<"L", "A", "C">>
      [] abbr = "LAR" -> <<"L", "A", "R">>
      [] abbr = "MIA" -> <<"M", "I", "A">>
      [] abbr = "MIN" -> <<"M", "I", "N">>
      [] abbr = "NE" -> <<"N", "E">>
      [] abbr = "NO" -> <<"N", "O">>
      [] abbr = "NYG" -> <<"N", "Y", "G">>
      [] abbr = "NYJ" -> <<"N", "Y", "J">>
      [] abbr = "PHI" -> <<"P", "H", "I">>
      [] abbr = "PIT" -> <<"P", "I", "T">>
      [] abbr = "SF" -> <<"S", "F">>
      [] abbr = "SEA" -> <<"S", "E", "A">>
      [] abbr = "TB" -> <<"T", "B">>
      [] abbr = "TEN" -> <<"T", "E", "N">>
      [] abbr = "WAS" -> <<"W", "A", "S">>
      [] OTHER -> <<"U", "N", "K">>

Txt_json == <<".", "j", "s", "o", "n">>

\* "_summary.json"
SummaryName == <<"_", "s", "u", "m", "m", "a", "r", "y">> \o Txt_json

\* "players.json" and "player_attributes.json"
PlayersName == <<"p", "l", "a", "y", "e", "r", "s">> \o Txt_json

AttributesName ==
    <<"p", "l", "a", "y", "e", "r", "_", "a", "t", "t", "r", "i", "b", "u", "t", "e", "s">>
        \o Txt_json

\* the file named by the first letter of the abbreviation only
export_file_name_initial(team_abbr) == SubSeq(Lower(AbbrText(team_abbr)), 1, 1) \o Txt_json

\* filename = f"{team_abbr.lower()}.json"
export_file_name(team_abbr) == Lower(AbbrText(team_abbr)) \o Txt_json

\* contracts_by_team.items(): the keys in insertion order, which for the
\* mapping scrape_all_teams builds is the order of TEAMS
MappingSlugs(by_team) ==
    SelectSeq([i \in 1..NumTeams |-> TeamSlug(i)], LAMBDA t : t \in DOMAIN by_team)

\* sum(len(c) for c in contracts_by_team.values())
SumCounts(by_team, slugs) ==
    LET total[k \in 0..Len(slugs)] ==
            IF k = 0 THEN 0 ELSE total[k - 1] + Len(by_team[slugs[k]])
    IN  total[Len(slugs)]

\* output_data and its file; count is contract_count / player_count and
\* records is contracts / players
TeamFile(team_slug, recs) ==
    [name |-> export_file_name(TeamAbbr(team_slug)),
     data |-> [team_slug |-> team_slug,
               team_abbr |-> TeamAbbr(team_slug),
               count |-> Len(recs),
               records |-> recs]]

\* summary and its file; total_count is total_contracts / total_players
SummaryFile(by_team) ==
    [name |-> SummaryName,
     data |-> [total_teams |-> Cardinality(DOMAIN by_team),
               total_count |-> SumCounts(by_team, MappingSlugs(by_team)),
               teams |-> [t \in DOMAIN by_team |->
                            [abbr |-> TeamAbbr(t), count |-> Len(by_team[t])]]]]

\* export_to_json of the two source B scripts
export_to_json_b(by_team) ==
    LET slugs == MappingSlugs(by_team)
    IN  [k \in 1..Len(slugs) |-> TeamFile(slugs[k], by_team[slugs[k]])]
            \o <<SummaryFile(by_team)>>

\* MaddenScraperWorking.export_to_json; player_id is "player_%04d" of the
\* number kept here
export_to_json_madden(players_data) ==
    <<[name |-> PlayersName,
       data |-> [k \in 1..Len(players_data) |->
                    [id |-> k - 1,
                     team |-> players_data[k].team_abbr,
                     player |-> players_data[k].player]]],
      [name |-> AttributesName,
       data |-> [k \in 1..Len(players_data) |->
                    [player_id |-> k - 1,
                     attributes |-> players_data[k].attributes]]]>>

export_to_json(p, data) ==
    IF p = "madden" THEN export_to_json_madden(data) ELSE export_to_json_b(data)

\* the most records a team has in the mappings exported
MaxTeamRecords == 2

\* a Player of the roster script and a Contract of the contracts script
OneRecord ==
    [p \in {"roster", "contracts"} |->
        IF p = "roster"
        THEN [player_name |-> <<"A">>, position |-> Txt_QB, age |-> {28}]
        ELSE [player_name |-> <<"A">>, position |-> Txt_QB, age |-> {28},
              base_salary_2025 |-> 11, cap_hit_2025 |-> 11, total_value |-> 33,
              years |-> 3, avg_salary |-> 11, guaranteed |-> 5, signing_bonus |-> 0]]

RECURSIVE Repeat(_, _)
Repeat(x, n) == IF n = 0 THEN <<>> ELSE <<x>> \o Repeat(x, n - 1)

\* the mappings exported: the keys are the slugs of a run of consecutive
\* teams of TEAMS (or none); every team has n records, or the i-th team has
\* i modulo MaxTeamRecords + 1 records
ExportMappingsOf(p) ==
    LET rec == OneRecord[p]
        doms == {{}} \cup {{TeamSlug(i) : i \in lo..hi} : lo \in 1..NumTeams, hi \in 1..NumTeams}
        idxOf(t) == CHOOSE i \in 1..NumTeams : TeamSlug(i) = t
    IN  {[t \in d |-> Repeat(rec, n)] : d \in doms, n \in 0..MaxTeamRecords}
        \cup {[t \in d |-> Repeat(rec, idxOf(t) % (MaxTeamRecords + 1))] : d \in doms}

ExportMappings == [p \in {"roster", "contracts"} |-> ExportMappingsOf(p)]

InitExport ==
    /\ pipeline \in {"roster", "contracts"}
    /\ all_results \in ExportMappings[pipeline]
    /\ files = <<>>
    /\ money_str = Idle /\ money_res = Idle /\ row = Idle /\ row_res = Idle
    /\ response = Idle /\ team_res = Idle
    /\ b_pc = Idle /\ limit = Idle /\ idx = 0 /\ events = Idle
    /\ m_pc = Idle /\ answer = Idle

\* scraper.export_to_json(all_contracts)
ExportCall ==
    /\ m_pc = Idle
    /\ files = <<>>
    /\ files' = export_to_json(pipeline, all_results)
    /\ UNCHANGED <<money_str, money_res, pipeline, row, row_res, response, team_res,
                   b_pc, limit, idx, all_results, events, m_pc, answer>>

NextExport == ExportCall

SpecExport == InitExport /\ [][NextExport]_vars

\* export_to_json has run: it always writes the summary
Exported == files # <<>>

\* the names of the files in the output directory
FileNames == {files[k].name : k \in 1..Len(files)}

\* the files written under the name nm
WritesTo(nm) == {k \in 1..Len(files) : files[k].name = nm}

\* the name the file of a team is to have: its abbreviation in lower case
\* followed by ".json"
TeamFileName(t) ==
    LET ab == AbbrText(TeamAbbr(t))
    IN  [i \in 1..Len(ab) |->
            IF \E j \in 1..26 : UpperLetters[j] = ab[i]
            THEN LowerLetters[CHOOSE j \in 1..26 : UpperLetters[j] = ab[i]]
            ELSE ab[i]] \o <<".", "j", "s", "o", "n">>

\* the sum of the count fields of the team files written
TeamCountSum ==
    LET upTo[k \in 0..Len(files)] ==
            IF k = 0 THEN 0
            ELSE upTo[k - 1]
                   + (IF files[k].name # SummaryName THEN files[k].data.count ELSE 0)
    IN  upTo[Len(files)]

\* C14: after export_to_json of a source B mapping over slugs of TEAMS the
\* directory holds one file per team of the mapping, named by the lower-case
\* abbreviation, distinct teams in distinct files and none in the summary
\* file; each team file's count is the length of its record list; the
\* summary's total count is the sum of the per-team counts and its
\* total_teams the number of team files.
C14_OneFilePerTeam ==
    (pipeline \in {"roster", "contracts"} /\ Exported) =>
        LET teams == DOMAIN all_results
            summary == files[CHOOSE k \in 1..Len(files) : files[k].name = SummaryName]
            teamFiles == {k \in 1..Len(files) : files[k].name # SummaryName}
        IN  /\ FileNames = {TeamFileName(t) : t \in teams} \cup {SummaryName}
            /\ Cardinality(FileNames) = Cardinality(teams) + 1
            /\ \A nm \in FileNames : Cardinality(WritesTo(nm)) = 1
            /\ \A t \in teams :
                  \A k \in WritesTo(TeamFileName(t)) :
                      /\ files[k].data.team_slug = t
                      /\ files[k].data.records = all_results[t]
                      /\ files[k].data.count = Len(files[k].data.records)
            /\ Cardinality(WritesTo(SummaryName)) = 1
            /\ summary.data.total_count = TeamCountSum
            /\ summary.data.total_teams = Cardinality(teamFiles)

\* an export of all 32 teams in which teams have 0, 1 and 2 records
C14_Witness ==
    /\ pipeline = "contracts"
    /\ Exported
    /\ Cardinality(DOMAIN all_results) = 32
    /\ Len(files) = 33
    /\ files[1].data.count = 1
    /\ files[2].data.count = 2
    /\ files[3].data.count = 0
    /\ files[33].name = SummaryName
    /\ files[33].data.total_teams = 32

(***************************************************************************)
(* main: the smoke test on kansas-city-chiefs, the confirmation prompt,    *)
(* the batch (the passes of scrape_all_teams above) and the export.        *)
(***************************************************************************)
\* what the operator types at the prompt
Answers ==
    {<<>>, <<"y">>, <<"Y">>, <<" ", "y", " ">>, <<"n">>, <<"N">>, <<"y", "e", "s">>}

\* the text input() returned
Typed(a) == [kind |-> "typed", text |-> a]

\* input() raises EOFError: the standard input is closed
EndOfInput == [kind |-> "EOFError", text |-> <<>>]

NotAsked == [kind |-> "not asked", text |-> <<>>]

NotStarted == "not started"

\* every answer but "n" taken as a yes
confirmed_unless_n(p, a) == a # <<"n">>

\* source B: input(...).strip().lower() compared with 'y';
\* madden: response.lower() compared with 'y'
confirmed(p, a) ==
    IF p = "madden" THEN Lower(a) = <<"y">> ELSE Lower(Strip(a)) = <<"y">>

\* the place in TEAMS of the team of the smoke test
TestTeamIdx == CHOOSE i \in 1..NumTeams : TeamSlug(i) = "kansas-city-chiefs"

InitMain ==
    /\ pipeline \in Pipelines
    /\ m_pc = "test"
    /\ answer = NotAsked
    /\ files = <<>>
    /\ response = Idle
    /\ team_res = TeamPending
    /\ b_pc = NotStarted
    /\ limit = None
    /\ idx = 0
    /\ all_results = <<>>
    /\ events = <<>>
    /\ money_str = Idle /\ money_res = Idle /\ row = Idle /\ row_res = Idle

\* test = scraper.scrape_team_...("kansas-city-chiefs"), on whatever its GET
\* produces; "if not test: return"
MainTest(out) ==
    /\ m_pc = "test"
    /\ team_res' = out
    /\ m_pc' = IF out.raised # "none" THEN "raised"
               ELSE IF out.ret = <<>> THEN "failed"
               ELSE "prompt"
    /\ UNCHANGED <<money_str, money_res, pipeline, row, row_res, response,
                   b_pc, limit, idx, all_results, events, answer, files>>

\* the team main scrapes next: the team of the smoke test, then the teams
\* of the batch in turn
MainTeamIdx == IF m_pc = "test" THEN TestTeamIdx ELSE Min(idx + 1, NumTeams)

\* a per-team scrape made from main, on whatever its GET produces: the smoke
\* test, or the next pass of scrape_all_teams
MainScrape ==
    \E out \in BatchOutcomes[pipeline][MainTeamIdx] : MainTest(out) \/ BatchPass(out)

\* response = input(...); "if response != 'y': return"; otherwise
\* scrape_all_teams() is entered
MainPrompt ==
    /\ m_pc = "prompt"
    /\ \E a \in {Typed(t) : t \in Answers} \cup {EndOfInput} :
          /\ answer' = a
          /\ IF a = EndOfInput THEN m_pc' = "raised" /\ UNCHANGED b_pc
             ELSE IF confirmed(pipeline, a.text) THEN m_pc' = "batch" /\ b_pc' = "loop"
             ELSE m_pc' = "cancelled" /\ UNCHANGED b_pc
    /\ UNCHANGED <<money_str, money_res, pipeline, row, row_res, response, team_res,
                   limit, idx, all_results, events, files>>

\* scraper.export_to_json(all_...), once scrape_all_teams has returned
MainExport ==
    /\ m_pc = "batch"
    /\ b_pc = "done"
    /\ files' = export_to_json(pipeline, all_results)
    /\ m_pc' = "done"
    /\ UNCHANGED <<money_str, money_res, pipeline, row, row_res, response, team_res,
                   b_pc, limit, idx, all_results, events, answer>>

NextMain == MainScrape \/ MainPrompt \/ BatchReturn \/ MainExport

SpecMain == InitMain /\ [][NextMain]_vars

\* the smoke test has run and returned at least one record
TestPassed == team_res # TeamPending /\ team_res.ret # <<>>

\* scrape_all_teams has been entered, or a request of the batch made
BatchStarted == b_pc # NotStarted \/ events # <<>>

\* the conditions on the main flow, for a given reading of "answered with 'y'"
MainGated(yes) ==
    /\ BatchStarted => (TestPassed /\ yes)
    /\ (team_res # TeamPending /\ team_res.ret = <<>>) => answer = NotAsked
    /\ (answer # NotAsked /\ ~yes) => (~BatchStarted /\ files = <<>>)
    /\ files # <<>> => (b_pc = "done" /\ Len(Scrapes(events)) = NumTeams)
    /\ m_pc \in {"failed", "cancelled"} => (files = <<>> /\ ~BatchStarted)

\* C15 as stated: the batch starts only after the smoke test returned a
\* record and then the operator answered 'y'; a failed test shows no prompt;
\* any other answer makes no batch request; the export runs only after the
\* whole batch, so a failed test or a declined prompt writes no file.
C15_BatchOnlyAfterY == MainGated(answer = Typed(<<"y">>))

\* the answers read as a yes: 'y' or 'Y', in source B also with white space
\* around it
AnswerIsYes ==
    /\ answer.kind = "typed"
    /\ IF pipeline = "madden" THEN answer.text \in {<<"y">>, <<"Y">>}
       ELSE Strip(answer.text) \in {<<"y">>, <<"Y">>}

\* C15: the batch starts only after the smoke test returned a record and
\* then the operator answered 'y' in either case (in source B also with
\* white space around it); a failed test shows no prompt; any other answer
\* makes no batch request; the export runs only after the whole batch, so a
\* failed test or a declined prompt writes no file.
C15_BatchOnlyAfterYes == MainGated(AnswerIsYes)

\* a roster run confirmed with " y " that scraped the 32 teams and exported
C15_Witness ==
    /\ pipeline = "roster"
    /\ m_pc = "done"
    /\ TestPassed
    /\ answer = Typed(<<" ", "y", " ">>)
    /\ Len(Scrapes(events)) = 32
    /\ Len(files) = 33

====
